---- MODULE Spec2Model ----
(***************************************************************************)
(* The notebook "Gradients and Vector-Jacobian Products": a Jupyter kernel *)
(* whose namespace is filled by the notebook's code cells.                 *)
(*                                                                         *)
(* Numbers.  The notebook computes with x ** 2, exp, -, *, sum.  For       *)
(* integer inputs every value it produces lies in the ring Z[e] of         *)
(* polynomials in e = exp(1) with integer coefficients (e is               *)
(* transcendental, so Z[e] is a subring of the reals and equality of       *)
(* polynomials is equality of the real numbers).  A number is the sequence *)
(* of its coefficients, coefficient of e^(k-1) at position k, with no      *)
(* trailing zero; <<>> is 0, <<3>> is 3, <<0, 1>> is e, <<-2, 0, 0, 0, 1>> *)
(* is e^4 - 2.  The arithmetic is exact: rounding of floats is not         *)
(* modelled.                                                               *)
(*                                                                         *)
(* Arrays.  [ndim, rows]: ndim 0 is a scalar (one row of one number),      *)
(* ndim 1 a flat array of shape (N,) (one row), ndim 2 an array of shape   *)
(* (R, N).  A Python tuple of arrays is [tuple |-> <<array, ...>>].        *)
(*                                                                         *)
(* Sequences are built as SubSeq([k \in 1..n |-> e], 1, n): the same       *)
(* sequence as [k \in 1..n |-> e], held as an explicit tuple.              *)
(***************************************************************************)
EXTENDS Integers, Sequences, FiniteSets, TLC

\* Largest length of x and y in the main example.
MaxN == 2
\* Largest length of v and p in the cross-term example g.
MaxM == 3
\* Entries of x range over -1 .. MaxX.
MaxX == 2
\* Entries of v, p and of the vector given to the HVP range over 0 .. MaxP.
MaxP == 2
\* Largest length of a literal in the runs that try literals of unequal lengths.
MaxLen == 3

Max(a, b) == IF a >= b THEN a ELSE b

---------------------------------------------------------------------------
(* Exact numbers: Z[e]. *)

RECURSIVE Trim(_)
Trim(s) ==
    IF s = <<>> THEN <<>>
    ELSE IF s[Len(s)] = 0 THEN Trim(SubSeq(s, 1, Len(s) - 1))
    ELSE s

Coef(a, k) == IF k >= 1 /\ k <= Len(a) THEN a[k] ELSE 0

NConst(c) == IF c = 0 THEN <<>> ELSE <<c>>

NAdd(a, b) ==
    LET n == Max(Len(a), Len(b))
    IN Trim(SubSeq([k \in 1..n |-> Coef(a, k) + Coef(b, k)], 1, n))

NSub(a, b) ==
    LET n == Max(Len(a), Len(b))
    IN Trim(SubSeq([k \in 1..n |-> Coef(a, k) - Coef(b, k)], 1, n))

RECURSIVE Conv(_, _, _, _)
\* sum over i in 1..n of a[i] * b[k - i + 1]: coefficient k of the product
Conv(a, b, k, n) ==
    IF n = 0 THEN 0
    ELSE a[n] * Coef(b, k - n + 1) + Conv(a, b, k, n - 1)

NMul(a, b) ==
    IF a = <<>> \/ b = <<>> THEN <<>>
    ELSE LET n == Len(a) + Len(b) - 1
         IN Trim(SubSeq([k \in 1..n |-> Conv(a, b, k, Len(a))], 1, n))

RECURSIVE NPow(_, _)
\* a ** n for an integer n >= 0 (numpy: a ** 0 = 1, also for a = 0)
NPow(a, n) == IF n = 0 THEN NConst(1) ELSE NMul(a, NPow(a, n - 1))

\* exp(a) for an integer a = c >= 0 is the monomial e^c.  The notebook only
\* takes exp of f1 = x ** 2, which is such an integer for integer x.
NExp(a) ==
    CASE a = <<>> -> NConst(1)
      [] Len(a) = 1 /\ a[1] > 0 ->
           SubSeq([k \in 1..(a[1] + 1) |-> IF k = a[1] + 1 THEN 1 ELSE 0], 1, a[1] + 1)

---------------------------------------------------------------------------
(* numpy arrays and their broadcasting arithmetic. *)

A0(n) == [ndim |-> 0, rows |-> << <<n>> >>]
A1(vec) == [ndim |-> 1, rows |-> <<vec>>]
A2(rs) == [ndim |-> 2, rows |-> rs]

\* numpy turns a tuple or list of R flat arrays into an array of shape (R, N)
AsArray(val) ==
    IF "tuple" \in DOMAIN val
    THEN LET n == Len(val.tuple)
         IN A2(SubSeq([r \in 1..n |-> val.tuple[r].rows[1]], 1, n))
    ELSE val

NRows(a) == Len(a.rows)
Width(a) == Len(a.rows[1])

\* element (r, i) of a broadcast to a larger shape: an axis of size 1 repeats
El(a, r, i) == a.rows[IF NRows(a) = 1 THEN 1 ELSE r][IF Width(a) = 1 THEN 1 ELSE i]

AMul(a0, b0) ==
    LET a == AsArray(a0)
        b == AsArray(b0)
        R == Max(NRows(a), NRows(b))
        W == Max(Width(a), Width(b))
    IN [ndim |-> Max(a.ndim, b.ndim),
        rows |-> SubSeq([r \in 1..R |->
                    SubSeq([i \in 1..W |-> NMul(El(a, r, i), El(b, r, i))], 1, W)], 1, R)]

ASub(a0, b0) ==
    LET a == AsArray(a0)
        b == AsArray(b0)
        R == Max(NRows(a), NRows(b))
        W == Max(Width(a), Width(b))
    IN [ndim |-> Max(a.ndim, b.ndim),
        rows |-> SubSeq([r \in 1..R |->
                    SubSeq([i \in 1..W |-> NSub(El(a, r, i), El(b, r, i))], 1, W)], 1, R)]

APow(a, n) ==
    LET R == NRows(a)
        W == Width(a)
    IN [ndim |-> a.ndim,
        rows |-> SubSeq([r \in 1..R |->
                    SubSeq([i \in 1..W |-> NPow(a.rows[r][i], n)], 1, W)], 1, R)]

AExp(a) ==
    LET R == NRows(a)
        W == Width(a)
    IN [ndim |-> a.ndim,
        rows |-> SubSeq([r \in 1..R |->
                    SubSeq([i \in 1..W |-> NExp(a.rows[r][i])], 1, W)], 1, R)]

RECURSIVE SumSeq(_)
SumSeq(s) == IF s = <<>> THEN <<>> ELSE NAdd(s[1], SumSeq(Tail(s)))

\* np.sum(a): the sum of all elements, a scalar
ASum(a) ==
    LET R == NRows(a)
    IN A0(SumSeq(SubSeq([r \in 1..R |-> SumSeq(a.rows[r])], 1, R)))

\* np.sum(a, axis=0) of a 2-d array: the column sums, a flat array
SumRows(a) ==
    LET R == NRows(a)
        W == Width(a)
    IN A1(SubSeq([i \in 1..W |->
              SumSeq(SubSeq([r \in 1..R |-> a.rows[r][i]], 1, R))], 1, W))

\* np.sum(a, axis=-1, keepdims=True): the sum of each row, kept as a row of one
SumCols(a) ==
    LET R == NRows(a)
    IN [ndim |-> a.ndim,
        rows |-> SubSeq([r \in 1..R |-> << SumSeq(a.rows[r]) >>], 1, R)]

\* a rule that lets no axis of size 1 repeat
Compatible_equal(a0, b0) ==
    LET a == AsArray(a0)
        b == AsArray(b0)
    IN NRows(a) = NRows(b) /\ Width(a) = Width(b)
\* numpy's broadcasting rule: on each axis the sizes are equal or one is 1;
\* an operation on two arrays that fail it raises ValueError
Compatible(a0, b0) ==
    LET a == AsArray(a0)
        b == AsArray(b0)
    IN /\ (NRows(a) = NRows(b) \/ NRows(a) = 1 \/ NRows(b) = 1)
       /\ (Width(a) = Width(b) \/ Width(a) = 1 \/ Width(b) = 1)

\* a[::-1] on the last axis
Reverse(a) ==
    LET R == NRows(a)
        W == Width(a)
    IN [ndim |-> a.ndim,
        rows |-> SubSeq([r \in 1..R |->
                    SubSeq([i \in 1..W |-> a.rows[r][W + 1 - i]], 1, W)], 1, R)]

\* np.arange(1, n + 1)
Arange(n) == A1(SubSeq([i \in 1..n |-> NConst(i)], 1, n))

\* an array of the shape of `like` filled with the scalar s
Full(like, s) ==
    LET R == NRows(like)
        W == Width(like)
    IN [ndim |-> like.ndim,
        rows |-> SubSeq([r \in 1..R |->
                    SubSeq([i \in 1..W |-> s.rows[1][1]], 1, W)], 1, R)]

---------------------------------------------------------------------------
(* The notebook's functions (cells 1, 7 and 12). *)

f1(g0) == APow(g0, 2)
\* f2 with the exp left out
f2_identity(g0) == g0
f2(g0) == AExp(g0)
h(x) == f2(f1(x))
L(hh, y) == ASum(APow(ASub(hh, y), 2))
\* L_x with the square left out
L_x_unsquared(x, y) == ASum(ASub(h(x), y))
L_x(x, y) == ASum(APow(ASub(h(x), y), 2))
h_f1(f) == f2(f)
\* g without the reversal
g_noreverse(v) == AMul(v, Arange(Width(v)))
g(v) == AMul(Reverse(v), Arange(Width(v)))

---------------------------------------------------------------------------
(* Reverse-mode differentiation as the notebook uses it.  Calling a        *)
(* function on a traced input records a tape: one node per primitive       *)
(* applied, in order, with the values its VJP rule needs.                  *)

\* f1 recorded as a first power
Tape_f1_linear(x) == << [op |-> "pow", x |-> x, n |-> 1] >>
Tape_f1(x) == << [op |-> "pow", x |-> x, n |-> 2] >>
Tape_h_f1(f) == << [op |-> "exp", x |-> f, ans |-> f2(f)] >>
\* h recorded without the node of f1
Tape_h_nof1(x) == Tape_h_f1(f1(x))
Tape_h(x) == Tape_f1(x) \o Tape_h_f1(f1(x))
\* L traced in its first argument
Tape_L(hh, y) ==
    << [op |-> "sub", x |-> hh],
       [op |-> "pow", x |-> ASub(hh, y), n |-> 2],
       [op |-> "sum", x |-> APow(ASub(hh, y), 2)] >>
Tape_L_x(x, y) == Tape_h(x) \o Tape_L(h(x), y)
\* g recorded without the factor np.arange(1, v.size + 1)
Tape_g_norange(v) ==
    << [op |-> "rev", x |-> v],
       [op |-> "mul", x |-> Reverse(v), c |-> Full(v, A0(NConst(1)))] >>
Tape_g(v) ==
    << [op |-> "rev", x |-> v],
       [op |-> "mul", x |-> Reverse(v), c |-> Arange(Width(v))] >>

\* unbroadcast: sum the leading axes the gradient has and the input has not,
\* then sum (keeping the axis) every axis on which the input has size 1
Unbroadcast(target, gg) ==
    LET a == IF gg.ndim > target.ndim
             THEN IF target.ndim = 0 THEN ASum(gg) ELSE SumRows(gg)
             ELSE gg
        b == IF a.ndim = 2 /\ target.ndim = 2 /\ NRows(target) = 1
             THEN A2(SumRows(a).rows)
             ELSE a
    IN IF b.ndim >= 1 /\ b.ndim = target.ndim /\ Width(target) = 1
       THEN SumCols(b)
       ELSE b

\* the VJP rule of each primitive, applied to the incoming gradient gg
\* the power rule without the factor n
VjpPow_nofactor(node, gg) ==
    Unbroadcast(node.x, AMul(gg, APow(node.x, node.n - 1)))
VjpPow(node, gg) ==
    Unbroadcast(node.x, AMul(AMul(gg, A0(NConst(node.n))), APow(node.x, node.n - 1)))
\* the exp rule multiplying by the input instead of the output
VjpExp_input(node, gg) == AMul(node.x, gg)
VjpExp(node, gg) == AMul(node.ans, gg)
VjpSub(node, gg) == Unbroadcast(node.x, AsArray(gg))
VjpSum(node, gg) == Full(node.x, AsArray(gg))
\* the rule of v[::-1] passing the gradient through unreversed
VjpRev_identity(node, gg) == Unbroadcast(node.x, AsArray(gg))
VjpRev(node, gg) == Unbroadcast(node.x, Reverse(AsArray(gg)))
\* the rule of a product by a constant multiplying by the input instead
VjpMul_input(node, gg) == Unbroadcast(node.x, AMul(node.x, gg))
VjpMul(node, gg) == Unbroadcast(node.x, AMul(node.c, gg))
\* tf.squared_difference(x, y): 2 * grad * (x - y), reduced to the shape of x
VjpSqDiff(node, gg) ==
    Unbroadcast(node.x, AMul(AMul(A0(NConst(2)), gg), ASub(node.x, node.y)))

VjpRule(node, gg) ==
    CASE node.op = "pow" -> VjpPow(node, gg)
      [] node.op = "exp" -> VjpExp(node, gg)
      [] node.op = "sub" -> VjpSub(node, gg)
      [] node.op = "sum" -> VjpSum(node, gg)
      [] node.op = "rev" -> VjpRev(node, gg)
      [] node.op = "mul" -> VjpMul(node, gg)
      [] node.op = "sqdiff" -> VjpSqDiff(node, gg)

RECURSIVE Backward(_, _)
\* the backward pass: the rules of the tape's nodes, last node first
Backward(tape, gg) ==
    IF tape = <<>> THEN gg
    ELSE Backward(SubSeq(tape, 1, Len(tape) - 1), VjpRule(tape[Len(tape)], gg))

\* make_vjp(fun)(x) returns (vjp function, fun(x)); the vjp function keeps the tape
MakeVjp(tape) == [tape |-> tape]
CallVjp(fn, gg) == Backward(fn.tape, gg)

\* grad(fun, [0])(args): the backward pass from 1.0; with the argument number
\* given as a list the result is a tuple holding the gradient
Grad(tape) == [tuple |-> << Backward(tape, A0(NConst(1))) >>]

\* the reversal recorded as an operation that passes its gradient through
AdjNode_norev(node, o) ==
    CASE node.op = "pow" ->
           [op |-> "mul", x |-> o, c |-> AMul(A0(NConst(node.n)), APow(node.x, node.n - 1))]
      [] node.op = "exp" -> [op |-> "mul", x |-> o, c |-> node.ans]
      [] node.op = "rev" -> [op |-> "sub", x |-> o]
      [] node.op = "mul" -> [op |-> "mul", x |-> o, c |-> node.c]
\* the node a VJP rule records when its own argument o is traced
AdjNode(node, o) ==
    CASE node.op = "pow" ->
           [op |-> "mul", x |-> o, c |-> AMul(A0(NConst(node.n)), APow(node.x, node.n - 1))]
      [] node.op = "exp" -> [op |-> "mul", x |-> o, c |-> node.ans]
      [] node.op = "rev" -> [op |-> "rev", x |-> o]
      [] node.op = "mul" -> [op |-> "mul", x |-> o, c |-> node.c]

RECURSIVE TraceVjp(_, _)
\* the tape of the backward pass of `tape`, run on the traced vector o
TraceVjp(tape, o) ==
    IF tape = <<>> THEN <<>>
    ELSE << AdjNode(tape[Len(tape)], o) >>
         \o TraceVjp(SubSeq(tape, 1, Len(tape) - 1), VjpRule(tape[Len(tape)], o))

\* the JVP function taken to be the VJP function
MakeJvp_vjp(tape, ans) == [tape |-> tape]
\* make_jvp_reversemode(fun)(x): the VJP of the VJP, taken at a zero vector
\* of the shape of fun(x)
MakeJvp(tape, ans) == [tape |-> TraceVjp(tape, Full(ans, A0(NConst(0))))]

\* grad(L) traced in h: the forward pass of L and the backward pass that
\* follows it, g * 2 * (h - y) ** 1
Tape_grad_L(hh, y) ==
    << [op |-> "sub", x |-> hh],
       [op |-> "pow", x |-> ASub(hh, y), n |-> 1],
       [op |-> "mul", x |-> APow(ASub(hh, y), 1),
        c |-> AMul(Full(ASub(hh, y), A0(NConst(1))), A0(NConst(2)))] >>

\* TensorFlow and PyTorch.  A tensor is a node of the graph x -> f1 -> h -> L
\* (or v -> g): its value and the tape of the operations from the graph's
\* input to it.
Tensor(val, tape) == [val |-> val, tape |-> tape]
\* a default seed of zeros in place of ones
OnesLike_zeros(a) == Full(a, A0(NConst(0)))
OnesLike(a) == Full(a, A0(NConst(1)))
ZerosLike(a) == Full(a, A0(NConst(0)))

\* L = tf.reduce_sum(tf.squared_difference(h, y)), from h
Tape_tf_L(hh, y) ==
    << [op |-> "sqdiff", x |-> hh, y |-> y],
       [op |-> "sum", x |-> APow(ASub(hh, y), 2)] >>
\* the gradient node without the factor 2
Tape_tf_grad_L_nofactor(hh, y) ==
    << [op |-> "sub", x |-> hh],
       [op |-> "mul", x |-> ASub(hh, y), c |-> OnesLike(ASub(hh, y))] >>
\* tf.gradients(L, h) as a node of the graph, from h: 2 * grad * (h - y)
Tape_tf_grad_L(hh, y) ==
    << [op |-> "sub", x |-> hh],
       [op |-> "mul", x |-> ASub(hh, y),
        c |-> AMul(A0(NConst(2)), OnesLike(ASub(hh, y)))] >>

\* the operations between the node xs and the node ys that depends on it
Between(ys, xs) == SubSeq(ys.tape, Len(xs.tape) + 1, Len(ys.tape))
\* sess.run(tf.gradients(ys, xs, grad_ys=[gy])): a list of one array
TfGradients(ys, xs, gy) == [list |-> << Backward(Between(ys, xs), gy) >>]
\* torch.autograd.grad(ys, xs, grad_outputs=gy)[0]; None stands for 1.0
TorchGrad(ys, xs, gy) == Backward(Between(ys, xs), gy)

\* Exceptions.  numpy raises ValueError when the operands of h - y or of a
\* product in a VJP rule cannot be broadcast together; nothing else in the
\* notebook's functions checks a length.
ValueError == [error |-> "ValueError"]
\* calling a value that is not a function raises TypeError
TypeError == [error |-> "TypeError"]
\* reading a name that is not bound raises NameError
NameError == [error |-> "NameError"]
Raised(val) == "error" \in DOMAIN val

\* L(h, y) and L_x(x, y) as called: the subtraction is the operation that raises
Call_L(hh, y) == IF Compatible(hh, y) THEN L(hh, y) ELSE ValueError
Call_L_x(x, y) == IF Compatible(h(x), y) THEN L_x(x, y) ELSE ValueError
\* grad(L, [0])(h, y) and grad(L_x, [0])(x, y): the forward pass runs first
Call_grad_L(hh, y) == IF Compatible(hh, y) THEN Grad(Tape_L(hh, y)) ELSE ValueError
Call_grad_L_x(x, y) == IF Compatible(h(x), y) THEN Grad(Tape_L_x(x, y)) ELSE ValueError

\* whether the rule of a node can multiply (or add) the incoming gradient in
RuleOk(node, gg) ==
    CASE node.op = "pow" -> Compatible(gg, node.x)
      [] node.op = "exp" -> Compatible(node.ans, gg)
      [] node.op = "rev" -> Compatible(gg, node.x)
      [] node.op = "mul" -> Compatible(node.c, gg)
      [] OTHER -> TRUE

RECURSIVE BackwardOk(_, _)
\* whether the backward pass of the tape from gg runs through without raising
BackwardOk(tape, gg) ==
    \/ tape = <<>>
    \/ /\ RuleOk(tape[Len(tape)], gg)
       /\ BackwardOk(SubSeq(tape, 1, Len(tape) - 1), VjpRule(tape[Len(tape)], gg))

\* a vjp function that compares the length of the vector with its input's
Call_vjp_checked(fn, gg) ==
    IF Width(gg) = Width(fn.tape[1].x) THEN CallVjp(fn, gg) ELSE ValueError
\* a vjp function called on any vector: its result, or the exception
Call_vjp(fn, gg) == IF BackwardOk(fn.tape, gg) THEN CallVjp(fn, gg) ELSE ValueError

\* make_hvp(fun) is make_vjp(grad(fun))
\* make_vjp(L) taken for make_hvp(L)
MakeHvp_vjp(hh, y) == MakeVjp(Tape_L(hh, y))
MakeHvp(hh, y) == MakeVjp(Tape_grad_L(hh, y))

---------------------------------------------------------------------------
(* The kernel.  ns is the namespace (name -> value, defined on the names   *)
(* bound so far), out the output printed by each cell that has run, queue  *)
(* the cells still to run, in order.  A cell runs when every name it reads *)
(* is bound.  The literals the notebook binds or passes (x, y, v, p, the   *)
(* vector given to the HVP) are inputs drawn from bounded sets.            *)

VARIABLES ns, out, queue

vars == <<ns, out, queue>>

Fn(name) == [fn |-> name]

XArrays(n) == {A1(SubSeq([i \in 1..n |-> NConst(t[i])], 1, n)) : t \in [1..n -> -1..MaxX]}
YVals == {NConst(1), NExp(NConst(1))}
YArrays(n) == {A1(SubSeq(t, 1, n)) : t \in [1..n -> YVals]}
PArrays(n) == {A1(SubSeq([i \in 1..n |-> NConst(t[i])], 1, n)) : t \in [1..n -> 0..MaxP]}
\* literals of the runs with unequal lengths: entries 1 or 2
LVals == {NConst(1), NConst(2)}
LArrays(n) == {A1(SubSeq(t, 1, n)) : t \in [1..n -> LVals]}

Bound(names) == names \subseteq DOMAIN ns

Runs(k) == queue # <<>> /\ Head(queue) = k

\* import autograd.numpy as np; from autograd import grad; f1, f2, h, L, L_x
Cell1 ==
    /\ Runs(1)
    /\ ns' = [np |-> Fn("autograd.numpy"), grad |-> Fn("grad"), f1 |-> Fn("f1"),
              f2 |-> Fn("f2"), h |-> Fn("h"), L |-> Fn("L"), L_x |-> Fn("L_x")] @@ ns
    /\ queue' = Tail(queue)
    /\ UNCHANGED out

\* x = np.array(...); y = np.array(...); print('Loss is ', L_x(x, y))
Cell2 ==
    /\ Runs(2)
    /\ Bound({"np", "L_x"})
    /\ \E n \in 1..MaxN : \E xv \in XArrays(n), yv \in YArrays(n) :
          /\ ns' = [x |-> xv, y |-> yv] @@ ns
          /\ out' = (2 :> L_x(xv, yv)) @@ out
    /\ queue' = Tail(queue)

\* grad_L_x_func = grad(L_x, [0]); J_L_x = grad_L_x_func(x, y)
\* grad_L_h_func = grad(L, [0]);   J_L_h = grad_L_h_func(h(x), y)
Cell3 ==
    /\ Runs(3)
    /\ Bound({"grad", "L_x", "L", "h", "x", "y"})
    /\ LET jx == Grad(Tape_L_x(ns.x, ns.y))
           jh == Grad(Tape_L(h(ns.x), ns.y))
       IN /\ ns' = [grad_L_x_func |-> Fn("grad(L_x)"), J_L_x |-> jx,
                    grad_L_h_func |-> Fn("grad(L)"), J_L_h |-> jh] @@ ns
          /\ out' = (3 :> << jx.tuple[1], jh.tuple[1] >>) @@ out
    /\ queue' = Tail(queue)

\* from autograd import make_vjp; vjp_h_builder = make_vjp(h)
Cell4 ==
    /\ Runs(4)
    /\ Bound({"h"})
    /\ ns' = [make_vjp |-> Fn("make_vjp"), vjp_h_builder |-> Fn("make_vjp(h)")] @@ ns
    /\ queue' = Tail(queue)
    /\ UNCHANGED out

\* vjp_h_x_func, h_value = vjp_h_builder(x)
Cell5 ==
    /\ Runs(5)
    /\ Bound({"vjp_h_builder", "x"})
    /\ ns' = [vjp_h_x_func |-> MakeVjp(Tape_h(ns.x)), h_value |-> h(ns.x)] @@ ns
    /\ queue' = Tail(queue)
    /\ UNCHANGED out

\* print('dL / dx is ', vjp_h_x_func(J_L_h))
Cell6 ==
    /\ Runs(6)
    /\ Bound({"vjp_h_x_func", "J_L_h"})
    /\ out' = (6 :> CallVjp(ns.vjp_h_x_func, ns.J_L_h)) @@ out
    /\ queue' = Tail(queue)
    /\ UNCHANGED ns

\* h_f1 = lambda f1: f2(f1)
Cell7 ==
    /\ Runs(7)
    /\ ns' = [h_f1 |-> Fn("h_f1")] @@ ns
    /\ queue' = Tail(queue)
    /\ UNCHANGED out

\* vjp_h_f1_builder = make_vjp(h_f1); f1_value = f1(x)
\* vjp_h_f1_func, h_value = vjp_h_f1_builder(f1_value)
Cell8 ==
    /\ Runs(8)
    /\ Bound({"make_vjp", "h_f1", "f1", "f2", "x"})
    /\ ns' = [vjp_h_f1_builder |-> Fn("make_vjp(h_f1)"), f1_value |-> f1(ns.x),
              vjp_h_f1_func |-> MakeVjp(Tape_h_f1(f1(ns.x))),
              h_value |-> h_f1(f1(ns.x))] @@ ns
    /\ queue' = Tail(queue)
    /\ UNCHANGED out

\* print('dL / df1 is ', vjp_h_f1_func(J_L_h))
Cell9 ==
    /\ Runs(9)
    /\ Bound({"vjp_h_f1_func", "J_L_h"})
    /\ out' = (9 :> CallVjp(ns.vjp_h_f1_func, ns.J_L_h)) @@ out
    /\ queue' = Tail(queue)
    /\ UNCHANGED ns

\* vjp_f1_builder = make_vjp(f1); vjp_f1_x_func, f1_value = vjp_f1_builder(x)
Cell10 ==
    /\ Runs(10)
    /\ Bound({"make_vjp", "f1", "x"})
    /\ ns' = [vjp_f1_builder |-> Fn("make_vjp(f1)"),
              vjp_f1_x_func |-> MakeVjp(Tape_f1(ns.x)), f1_value |-> f1(ns.x)] @@ ns
    /\ queue' = Tail(queue)
    /\ UNCHANGED out

\* J_L_x_explicit = vjp_f1_x_func(vjp_h_f1_func(J_L_h)); print(J_L_x_explicit)
Cell11 ==
    /\ Runs(11)
    /\ Bound({"vjp_f1_x_func", "vjp_h_f1_func", "J_L_h"})
    /\ LET r == CallVjp(ns.vjp_f1_x_func, CallVjp(ns.vjp_h_f1_func, ns.J_L_h))
       IN /\ ns' = [J_L_x_explicit |-> r] @@ ns
          /\ out' = (11 :> r) @@ out
    /\ queue' = Tail(queue)

\* g = lambda v: v[::-1] * np.arange(1, v.size + 1)
Cell12 ==
    /\ Runs(12)
    /\ ns' = [g |-> Fn("g")] @@ ns
    /\ queue' = Tail(queue)
    /\ UNCHANGED out

\* v = np.array(...); p = np.array(...)
\* vjp_g_v_func, _ = make_vjp(g)(v);          print(vjp_g_v_func(p))
\* jvp_g_v_func = make_jvp_reversemode(g)(v); print(jvp_g_v_func(p))
Cell13 ==
    /\ Runs(13)
    /\ Bound({"np", "make_vjp", "g"})
    /\ \E m \in 1..MaxM : \E vv \in PArrays(m), pp \in PArrays(m) :
          LET vjpf == MakeVjp(Tape_g(vv))
              jvpf == MakeJvp(Tape_g(vv), g(vv))
          IN /\ ns' = [make_jvp_reversemode |-> Fn("make_jvp_reversemode"),
                       v |-> vv, p |-> pp,
                       vjp_g_builder |-> Fn("make_vjp(g)"), vjp_g_v_func |-> vjpf,
                       jvp_g_builder |-> Fn("make_jvp_reversemode(g)"),
                       jvp_g_v_func |-> jvpf] @@ ("_" :> g(vv)) @@ ns
             /\ out' = (13 :> [vjp |-> CallVjp(vjpf, pp), jvp |-> CallVjp(jvpf, pp)]) @@ out
    /\ queue' = Tail(queue)

\* hvp_L_builder = make_hvp(L); hvp_L_h_func, _ = hvp_L_builder(h(x), y)
\* print('HVP is [1, 2] is ', hvp_L_h_func([1, 2]))
Cell14 ==
    /\ Runs(14)
    /\ Bound({"L", "h", "x", "y"})
    /\ LET hvpf == MakeHvp(h(ns.x), ns.y)
           gval == Grad(Tape_L(h(ns.x), ns.y)).tuple[1]
       IN /\ ns' = [make_hvp |-> Fn("make_hvp"), hvp_L_builder |-> Fn("make_hvp(L)"),
                    hvp_L_h_func |-> hvpf] @@ ("_" :> gval) @@ ns
          /\ \E w \in PArrays(Width(ns.x)) :
                out' = (14 :> [arg |-> w, res |-> CallVjp(hvpf, w)]) @@ out
    /\ queue' = Tail(queue)

\* Cell 2 in a kernel in which any cells have run before (queued as 202).
\* The lambdas of cell 1 look their global names up when they are called:
\* L_x calls what h names then, and h what f1 and f2 name; calling a tensor
\* raises TypeError.  The output is kept with the literals it is for.
Cell2Re ==
    /\ Runs(202)
    /\ Bound({"np", "L_x", "h", "f1", "f2"})
    /\ \E n \in 1..MaxN : \E xv \in LArrays(n) :
          LET yv == Full(xv, A0(NExp(NConst(1))))
              val == IF ns.h = Fn("h") /\ ns.f1 = Fn("f1") /\ ns.f2 = Fn("f2")
                     THEN L_x(xv, yv)
                     ELSE TypeError
          IN /\ ns' = [x |-> xv, y |-> yv] @@ ns
             /\ out' = (2 :> [x |-> xv, y |-> yv, printed |-> val]) @@ out
    /\ queue' = Tail(queue)

\* Cells 2, 3, 13 and 14 with literals of any lengths (queued as 100 + the
\* cell number).  A cell that raises stops at the raising statement: what it
\* bound before stays bound, its output is the exception, and the next cell
\* is run all the same.

\* x = np.array(...); y = np.array(...); print('Loss is ', L_x(x, y))
Cell2Any ==
    /\ Runs(102)
    /\ Bound({"np", "L_x"})
    /\ \E n \in 1..MaxLen, m \in 1..MaxLen : \E xv \in LArrays(n), yv \in YArrays(m) :
          /\ ns' = [x |-> xv, y |-> yv] @@ ns
          /\ out' = (2 :> Call_L_x(xv, yv)) @@ out
    /\ queue' = Tail(queue)

\* grad_L_x_func = grad(L_x, [0]); J_L_x = grad_L_x_func(x, y)
\* grad_L_h_func = grad(L, [0]);   J_L_h = grad_L_h_func(h(x), y)
Cell3Any ==
    /\ Runs(103)
    /\ Bound({"grad", "L_x", "L", "h", "x", "y"})
    /\ LET jx == Call_grad_L_x(ns.x, ns.y)
           jh == Call_grad_L(h(ns.x), ns.y)
       IN IF Raised(jx)
          THEN /\ ns' = [grad_L_x_func |-> Fn("grad(L_x)")] @@ ns
               /\ out' = (3 :> jx) @@ out
          ELSE IF Raised(jh)
          THEN /\ ns' = [grad_L_x_func |-> Fn("grad(L_x)"), J_L_x |-> jx,
                         grad_L_h_func |-> Fn("grad(L)")] @@ ns
               /\ out' = (3 :> jh) @@ out
          ELSE /\ ns' = [grad_L_x_func |-> Fn("grad(L_x)"), J_L_x |-> jx,
                         grad_L_h_func |-> Fn("grad(L)"), J_L_h |-> jh] @@ ns
               /\ out' = (3 :> [dLdx |-> jx.tuple[1], dLdh |-> jh.tuple[1]]) @@ out
    /\ queue' = Tail(queue)

\* v = np.array(...); p = np.array(...)
\* vjp_g_v_func, _ = make_vjp(g)(v);          print(vjp_g_v_func(p))
\* jvp_g_v_func = make_jvp_reversemode(g)(v); print(jvp_g_v_func(p))
Cell13Any ==
    /\ Runs(113)
    /\ Bound({"np", "make_vjp", "g"})
    /\ \E m \in 1..MaxLen, k \in 1..MaxLen : \E vv \in LArrays(m), pp \in LArrays(k) :
          LET vjpf == MakeVjp(Tape_g(vv))
              jvpf == MakeJvp(Tape_g(vv), g(vv))
              r1 == Call_vjp(vjpf, pp)
              r2 == Call_vjp(jvpf, pp)
              bound1 == [make_jvp_reversemode |-> Fn("make_jvp_reversemode"),
                         v |-> vv, p |-> pp,
                         vjp_g_builder |-> Fn("make_vjp(g)"), vjp_g_v_func |-> vjpf]
                        @@ ("_" :> g(vv))
              bound2 == [jvp_g_builder |-> Fn("make_jvp_reversemode(g)"),
                         jvp_g_v_func |-> jvpf]
          IN IF Raised(r1)
             THEN ns' = bound1 @@ ns /\ out' = (13 :> r1) @@ out
             ELSE IF Raised(r2)
             THEN ns' = bound2 @@ bound1 @@ ns /\ out' = (13 :> r2) @@ out
             ELSE /\ ns' = bound2 @@ bound1 @@ ns
                  /\ out' = (13 :> [vjp |-> r1, jvp |-> r2]) @@ out
    /\ queue' = Tail(queue)

\* hvp_L_builder = make_hvp(L); hvp_L_h_func, _ = hvp_L_builder(h(x), y)
\* print('HVP is [1, 2] is ', hvp_L_h_func([1, 2]))
Cell14Any ==
    /\ Runs(114)
    /\ Bound({"L", "h", "x", "y"})
    /\ LET gval == Call_grad_L(h(ns.x), ns.y)
           bound1 == [make_hvp |-> Fn("make_hvp"), hvp_L_builder |-> Fn("make_hvp(L)")]
       IN IF Raised(gval)
          THEN ns' = bound1 @@ ns /\ out' = (14 :> gval) @@ out
          ELSE LET hvpf == MakeHvp(h(ns.x), ns.y)
               IN /\ ns' = [hvp_L_h_func |-> hvpf] @@ bound1
                             @@ ("_" :> gval.tuple[1]) @@ ns
                  /\ \E k \in 1..MaxLen : \E w \in LArrays(k) :
                        out' = (14 :> [arg |-> w, res |-> Call_vjp(hvpf, w)]) @@ out
    /\ queue' = Tail(queue)

\* import tensorflow as tf; x, y = tf.constant(...); f1 = tf.pow(x, 2)
\* h = tf.exp(f1); L = tf.reduce_sum(tf.squared_difference(h, y)); sess
Cell15 ==
    /\ Runs(15)
    /\ \E n \in 1..MaxN : \E xv \in LArrays(n), yv \in YArrays(n) :
          ns' = [tf |-> Fn("tensorflow"), sess |-> Fn("tf.Session"),
                 x |-> Tensor(xv, <<>>), y |-> Tensor(yv, <<>>),
                 f1 |-> Tensor(f1(xv), Tape_f1(xv)),
                 h |-> Tensor(h(xv), Tape_h(xv)),
                 L |-> Tensor(L(h(xv), yv), Tape_h(xv) \o Tape_tf_L(h(xv), yv))] @@ ns
    /\ queue' = Tail(queue)
    /\ UNCHANGED out

\* sess.run([tf.gradients(L, h), tf.gradients(L, f1), tf.gradients(L, x)])
Cell16 ==
    /\ Runs(16)
    /\ Bound({"tf", "sess", "L", "h", "f1", "x"})
    /\ out' = (16 :> [dLdh |-> TfGradients(ns.L, ns.h, OnesLike(ns.L.val)),
                      dLdf1 |-> TfGradients(ns.L, ns.f1, OnesLike(ns.L.val)),
                      dLdx |-> TfGradients(ns.L, ns.x, OnesLike(ns.L.val))]) @@ out
    /\ queue' = Tail(queue)
    /\ UNCHANGED ns

\* print('The value of dh/dx * [1, 1] is ', sess.run(tf.gradients(h, x)))
Cell17 ==
    /\ Runs(17)
    /\ Bound({"tf", "sess", "h", "x"})
    /\ out' = (17 :> TfGradients(ns.h, ns.x, OnesLike(ns.h.val))) @@ out
    /\ queue' = Tail(queue)
    /\ UNCHANGED ns

\* J_L_h = tf.constant(...); vjp_h_f1_func = lambda v: tf.gradients(h, f1, grad_ys=[v])
\* print(sess.run(vjp_h_f1_func(J_L_h))); print(sess.run(vjp_h_f1_func([1., 2.])))
Cell18 ==
    /\ Runs(18)
    /\ Bound({"tf", "sess", "h", "f1"})
    /\ \E w1 \in LArrays(Width(ns.h.val)), w2 \in LArrays(Width(ns.h.val)) :
          /\ ns' = [J_L_h |-> Tensor(w1, <<>>),
                    vjp_h_f1_func |-> Fn("tf vjp_h_f1_func")] @@ ns
          /\ out' = (18 :> [arg1 |-> w1, res1 |-> TfGradients(ns.h, ns.f1, w1),
                            arg2 |-> w2, res2 |-> TfGradients(ns.h, ns.f1, w2)]) @@ out
    /\ queue' = Tail(queue)

\* v, p = tf.constant(...); g = v[::-1] * tf.cast(tf.range(1, v.shape[0] + 1), 'float32')
\* vjp_g_v_func = lambda p: tf.gradients(g, v, grad_ys=[p])
\* dummy = tf.zeros_like(g); vjp_g_v_node = tf.gradients(g, v, grad_ys=[dummy])
\* jvp_g_v_func = lambda p: tf.gradients(vjp_g_v_node, dummy, grad_ys=[p])
Cell19 ==
    /\ Runs(19)
    /\ Bound({"tf", "sess"})
    /\ \E m \in 1..MaxM : \E vv \in LArrays(m), pp \in LArrays(m) :
          LET vT == Tensor(vv, <<>>)
              gT == Tensor(g(vv), Tape_g(vv))
              dummy == Tensor(ZerosLike(gT.val), <<>>)
              node == Tensor(Backward(Between(gT, vT), dummy.val),
                             TraceVjp(Between(gT, vT), dummy.val))
          IN /\ ns' = [v |-> vT, p |-> Tensor(pp, <<>>), g |-> gT,
                       vjp_g_v_func |-> Fn("tf vjp_g_v_func"), dummy |-> dummy,
                       vjp_g_v_node |-> [list |-> << node >>],
                       jvp_g_v_func |-> Fn("tf jvp_g_v_func")] @@ ns
             /\ out' = (19 :> [vjp |-> TfGradients(gT, vT, pp),
                               jvp |-> TfGradients(node, dummy, pp)]) @@ out
    /\ queue' = Tail(queue)

\* J_L_h_tensor = tf.gradients(L, h)
\* hvp_L_h_func = lambda v: tf.gradients(J_L_h_tensor, h, grad_ys=v)
\* print('HVP is [1, 2] is ', sess.run(hvp_L_h_func(tf.constant([1., 2.]))))
Cell20 ==
    /\ Runs(20)
    /\ Bound({"tf", "sess", "L", "h", "y"})
    /\ LET J == Tensor(Backward(Between(ns.L, ns.h), OnesLike(ns.L.val)),
                       ns.h.tape \o Tape_tf_grad_L(ns.h.val, ns.y.val))
       IN /\ ns' = [J_L_h_tensor |-> [list |-> << J >>],
                    hvp_L_h_func |-> Fn("tf hvp_L_h_func")] @@ ns
          /\ \E w \in LArrays(Width(ns.h.val)) :
                out' = (20 :> [arg |-> w, res |-> TfGradients(J, ns.h, w)]) @@ out
    /\ queue' = Tail(queue)

\* import torch as tc; x = tc.tensor(..., requires_grad=True); y = tc.tensor(...)
\* f1 = tc.pow(x, 2); h = tc.exp(f1); L = tc.sum((h - y) ** 2)
Cell21 ==
    /\ Runs(21)
    /\ \E n \in 1..MaxN : \E xv \in LArrays(n), yv \in YArrays(n) :
          ns' = [tc |-> Fn("torch"),
                 x |-> Tensor(xv, <<>>), y |-> Tensor(yv, <<>>),
                 f1 |-> Tensor(f1(xv), Tape_f1(xv)),
                 h |-> Tensor(h(xv), Tape_h(xv)),
                 L |-> Tensor(L(h(xv), yv), Tape_h(xv) \o Tape_L(h(xv), yv))] @@ ns
    /\ queue' = Tail(queue)
    /\ UNCHANGED out

\* import torch.autograd as tcag
\* print(tcag.grad(L, h, ...)[0]); print(tcag.grad(L, f1, ...)[0]); print(tcag.grad(L, x, ...)[0])
\* J_L_h = tc.tensor(...); print(tcag.grad(h, x, grad_outputs=J_L_h, create_graph=True)[0])
Cell22 ==
    /\ Runs(22)
    /\ Bound({"tc", "L", "h", "f1", "x"})
    /\ \E w \in LArrays(Width(ns.h.val)) :
          /\ ns' = [tcag |-> Fn("torch.autograd"), J_L_h |-> Tensor(w, <<>>)] @@ ns
          /\ out' = (22 :> [dLdh |-> TorchGrad(ns.L, ns.h, A0(NConst(1))),
                            dLdf1 |-> TorchGrad(ns.L, ns.f1, A0(NConst(1))),
                            dLdx |-> TorchGrad(ns.L, ns.x, A0(NConst(1))),
                            arg |-> w, res |-> TorchGrad(ns.h, ns.x, w)]) @@ out
    /\ queue' = Tail(queue)

\* J_L_h_tensor = tcag.grad(L, h, grad_outputs=None, create_graph=True)[0]
\* hvp_L_h_func = lambda v: tcag.grad(J_L_h_tensor, h, grad_outputs=v, create_graph=True)[0]
\* print('HVP is [1, 2] is ', hvp_L_h_func(tc.tensor([1., 2.])))
Cell23 ==
    /\ Runs(23)
    /\ Bound({"tc", "tcag", "L", "h", "y"})
    /\ LET J == Tensor(TorchGrad(ns.L, ns.h, A0(NConst(1))),
                       ns.h.tape \o Tape_grad_L(ns.h.val, ns.y.val))
       IN /\ ns' = [J_L_h_tensor |-> J, hvp_L_h_func |-> Fn("torch hvp_L_h_func")] @@ ns
          /\ \E w \in LArrays(Width(ns.h.val)) :
                out' = (23 :> [arg |-> w, res |-> TorchGrad(J, ns.h, w)]) @@ out
    /\ queue' = Tail(queue)

\* The earlier notebook (Autograd only).  Its cells 1, 2, 4, 5, 7, 8, 10 and
\* 12 hold the code of cells 1, 2, 4, 5, 7, 8, 10 and 14 above; its cells 3,
\* 6, 9 and 11 are queued as 300 + the cell number.  A statement that reads
\* an unbound name raises NameError and ends the cell: what the cell bound
\* before stays bound, and the next cell is run all the same.

\* grad_L_x_func = grad(L_x, [0]); J_L_x = grad_L_x_func(x, y)
\* print('Gradient dL / dx is ', dLdx[0])
\* grad_L_h_func = grad(L, [0]);   J_L_h = grad_L_h_func(h(x), y)
\* print('Gradient dL / dh is ', j_L_h[0])
PartCell3 ==
    /\ Runs(303)
    /\ LET jx == Grad(Tape_L_x(ns.x, ns.y))
           jh == Grad(Tape_L(h(ns.x), ns.y))
           bound1 == [grad_L_x_func |-> Fn("grad(L_x)"), J_L_x |-> jx]
           bound2 == [grad_L_h_func |-> Fn("grad(L)"), J_L_h |-> jh]
       IN IF ~Bound({"grad", "L_x", "x", "y"})
          THEN ns' = ns /\ out' = (303 :> NameError) @@ out
          ELSE IF ~Bound({"dLdx"})
          THEN ns' = bound1 @@ ns /\ out' = (303 :> NameError) @@ out
          ELSE IF ~Bound({"L", "h"})
          THEN ns' = bound1 @@ ns /\ out' = (303 :> NameError) @@ out
          ELSE IF ~Bound({"j_L_h"})
          THEN ns' = bound2 @@ bound1 @@ ns /\ out' = (303 :> NameError) @@ out
          ELSE /\ ns' = bound2 @@ bound1 @@ ns
               /\ out' = (303 :> [dLdx |-> ns.dLdx.tuple[1],
                                  dLdh |-> ns.j_L_h.tuple[1]]) @@ out
    /\ queue' = Tail(queue)

\* print('dL / dx is ', vjp_h_x_func(J_L_h))
PartCell6 ==
    /\ Runs(306)
    /\ out' = (306 :> IF Bound({"vjp_h_x_func", "J_L_h"})
                      THEN CallVjp(ns.vjp_h_x_func, ns.J_L_h)
                      ELSE NameError) @@ out
    /\ queue' = Tail(queue)
    /\ UNCHANGED ns

\* print('dL / df1 is ', vjp_h_f1_func(J_L_h))
PartCell9 ==
    /\ Runs(309)
    /\ out' = (309 :> IF Bound({"vjp_h_f1_func", "J_L_h"})
                      THEN CallVjp(ns.vjp_h_f1_func, ns.J_L_h)
                      ELSE NameError) @@ out
    /\ queue' = Tail(queue)
    /\ UNCHANGED ns

\* J_L_x_explicit = vjp_f1_x_func(vjp_h_f1_func(J_L_h)); print(J_L_x_explicit)
PartCell11 ==
    /\ Runs(311)
    /\ IF Bound({"vjp_f1_x_func", "vjp_h_f1_func", "J_L_h"})
       THEN LET r == CallVjp(ns.vjp_f1_x_func, CallVjp(ns.vjp_h_f1_func, ns.J_L_h))
            IN ns' = [J_L_x_explicit |-> r] @@ ns /\ out' = (311 :> r) @@ out
       ELSE ns' = ns /\ out' = (311 :> NameError) @@ out
    /\ queue' = Tail(queue)

\* Run of the Autograd VJP section (cells 1 to 11) on a fresh kernel.
Init == ns = <<>> /\ out = <<>> /\ queue = <<1, 2, 3, 4, 5, 6, 7, 8, 9, 10, 11>>
Next == Cell1 \/ Cell2 \/ Cell3 \/ Cell4 \/ Cell5 \/ Cell6 \/ Cell7 \/ Cell8
        \/ Cell9 \/ Cell10 \/ Cell11
Spec == Init /\ [][Next]_vars

\* Run of the cells the JVP section needs (1, 4, 12, 13) on a fresh kernel.
InitJVP == ns = <<>> /\ out = <<>> /\ queue = <<1, 4, 12, 13>>
NextJVP == Cell1 \/ Cell4 \/ Cell12 \/ Cell13
SpecJVP == InitJVP /\ [][NextJVP]_vars

\* Run of the cells the Hessian section needs (1, 2, 14) on a fresh kernel.
InitHVP == ns = <<>> /\ out = <<>> /\ queue = <<1, 2, 14>>
NextHVP == Cell1 \/ Cell2 \/ Cell14
SpecHVP == InitHVP /\ [][NextHVP]_vars

\* Runs that try literals of unequal lengths, on a fresh kernel: cells 1, 2,
\* 3 and 14, or cells 1, 4, 12 and 13.
InitShape ==
    /\ ns = <<>> /\ out = <<>>
    /\ queue \in { <<1, 102, 103, 114>>, <<1, 4, 12, 113>> }
NextShape == Cell1 \/ Cell4 \/ Cell12 \/ Cell2Any \/ Cell3Any \/ Cell13Any \/ Cell14Any
SpecShape == InitShape /\ [][NextShape]_vars

\* Runs of the TensorFlow section (cells 15 to 18, or 15 and 19, or 15 and
\* 20: cells 19 and 20 read no name that cells 16 to 18 bind) and of the
\* PyTorch section (cells 21 to 23) on a fresh kernel.
InitLibs ==
    /\ ns = <<>> /\ out = <<>>
    /\ queue \in { <<15, 16, 17, 18>>, <<15, 19>>, <<15, 20>>, <<21, 22, 23>> }
NextLibs == Cell15 \/ Cell16 \/ Cell17 \/ Cell18 \/ Cell19 \/ Cell20
            \/ Cell21 \/ Cell22 \/ Cell23
SpecLibs == InitLibs /\ [][NextLibs]_vars

\* Cell 2 run again after a later section has started: cells 1, 2, then cell
\* 15 or cell 21, then cell 2 once more.
InitRerun ==
    /\ ns = <<>> /\ out = <<>>
    /\ queue \in { <<1, 202, 15, 202>>, <<1, 202, 21, 202>>, <<1, 202, 202>> }
NextRerun == Cell1 \/ Cell2Re \/ Cell15 \/ Cell21
SpecRerun == InitRerun /\ [][NextRerun]_vars

\* Run of the earlier notebook, its twelve code cells top to bottom, on a
\* fresh kernel.
PartOrder == <<1, 2, 303, 4, 5, 306, 7, 8, 309, 10, 311, 14>>
InitPart == ns = <<>> /\ out = <<>> /\ queue = PartOrder
NextPart == Cell1 \/ Cell2 \/ PartCell3 \/ Cell4 \/ Cell5 \/ PartCell6 \/ Cell7
            \/ Cell8 \/ PartCell9 \/ Cell10 \/ PartCell11 \/ Cell14
SpecPart == InitPart /\ [][NextPart]_vars

---------------------------------------------------------------------------
(* Properties.  Closed forms are written with the number arithmetic only. *)

Has(name) == name \in DOMAIN ns
Printed(k) == k \in DOMAIN out
Vec(a) == a.rows[1]
IntArr(s) == A1(SubSeq([i \in 1..Len(s) |-> NConst(s[i])], 1, Len(s)))
\* vectors a function is tried on: [1, 2, .., n], [e, e, .., e] and
\* [-1, e, -1, ..]
TestVecs(n) ==
    { Arange(n),
      A1(SubSeq([i \in 1..n |-> NExp(NConst(1))], 1, n)),
      A1(SubSeq([i \in 1..n |-> IF i % 2 = 1 THEN NConst(-1) ELSE NExp(NConst(1))], 1, n)) }

RECURSIVE SumSq(_, _, _)
\* (hv[1] - yv[1])^2 + ... + (hv[n] - yv[n])^2
SumSq(hv, yv, n) ==
    IF n = 0 THEN NConst(0)
    ELSE NAdd(SumSq(hv, yv, n - 1), NMul(NSub(hv[n], yv[n]), NSub(hv[n], yv[n])))

\* C9: forward(x) = (f1, h): f1_value and h_value are flat arrays of the
\* length of x with f1[i] = x[i]^2 and h[i] = exp(f1[i]), and h(x) is the
\* composition f2(f1(x)), both as cell 5 and as cell 8 bind it.
C9_Forward ==
    /\ (Has("h_value") /\ Has("x")) =>
          /\ ns.h_value = f2(f1(ns.x))
          /\ ns.h_value.ndim = 1 /\ Len(Vec(ns.h_value)) = Len(Vec(ns.x))
          /\ \A i \in 1..Len(Vec(ns.x)) :
                Vec(ns.h_value)[i] = NExp(NMul(Vec(ns.x)[i], Vec(ns.x)[i]))
    /\ (Has("f1_value") /\ Has("h_value") /\ Has("x")) =>
          /\ ns.f1_value.ndim = 1 /\ Len(Vec(ns.f1_value)) = Len(Vec(ns.x))
          /\ \A i \in 1..Len(Vec(ns.x)) :
                /\ Vec(ns.f1_value)[i] = NMul(Vec(ns.x)[i], Vec(ns.x)[i])
                /\ Vec(ns.h_value)[i] = NExp(Vec(ns.f1_value)[i])

\* cell 8 has run on an x of length 2 holding 2 and -1: x^2 differs from 2x and from x
C9_Witness ==
    /\ Has("f1_value") /\ Has("vjp_h_f1_func")
    /\ ns.x = IntArr(<<2, -1>>)
    /\ ns.f1_value = IntArr(<<4, 1>>)

\* C10: loss(h, y) is the sum over i of (h[i] - y[i])^2, and the loss as a
\* function of x that cell 2 prints, L_x(x, y), is loss(h(x), y).
C10_Loss ==
    /\ (Printed(2) /\ Has("h_value")) =>
          /\ L(ns.h_value, ns.y) = A0(SumSq(Vec(ns.h_value), Vec(ns.y), Len(Vec(ns.y))))
          /\ out[2] = L(ns.h_value, ns.y)
    /\ Has("y") => \A hh \in TestVecs(Len(Vec(ns.y))) :
          L(hh, ns.y) = A0(SumSq(Vec(hh), Vec(ns.y), Len(Vec(ns.y))))

\* the loss e^8 - 2e^5 + 2e^2 - 2e + 1 of x = [1, 2], y = [1, e] has been printed
C10_Witness ==
    /\ Printed(2) /\ Has("h_value")
    /\ ns.x = IntArr(<<1, 2>>)
    /\ ns.y = A1(<<NConst(1), NExp(NConst(1))>>)
    /\ out[2] = A0(<<1, -2, 2, 0, 0, -2, 0, 0, 1>>)

\* C8: grad_L_wrt_h(h, y)[i] = 2 * (h[i] - y[i]): for the J_L_h that cell 3
\* binds (h = h(x)) and for grad(L, [0]) called on any h of the length of y.
C8_GradLh ==
    /\ Has("J_L_h") =>
          \A i \in 1..Len(Vec(ns.y)) :
             Vec(ns.J_L_h.tuple[1])[i]
                = NMul(NConst(2), NSub(Vec(h(ns.x))[i], Vec(ns.y)[i]))
    /\ Has("y") => \A hh \in TestVecs(Len(Vec(ns.y))) :
          LET r == Vec(Grad(Tape_L(hh, ns.y)).tuple[1])
          IN /\ Len(r) = Len(Vec(ns.y))
             /\ \A i \in 1..Len(Vec(ns.y)) :
                   r[i] = NMul(NConst(2), NSub(Vec(hh)[i], Vec(ns.y)[i]))

\* cell 3 has bound J_L_h = [2e - 2, 2e^4 - 2e] for x = [1, 2], y = [1, e]
C8_Witness ==
    /\ Has("J_L_h")
    /\ ns.x = IntArr(<<1, 2>>)
    /\ ns.y = A1(<<NConst(1), NExp(NConst(1))>>)
    /\ ns.J_L_h.tuple[1] = A1(<< <<-2, 2>>, <<0, -2, 0, 0, 2>> >>)

\* C7: vjp_f1_wrt_x(x, v)[i] = 2 * x[i] * v[i]: for every flat v given to the
\* vjp_f1_x_func of cell 10, and for the vector cell 11 gives it.
C7_VjpF1 ==
    /\ Has("vjp_f1_x_func") =>
          \A vv \in TestVecs(Len(Vec(ns.x))) :
             LET r == CallVjp(ns.vjp_f1_x_func, vv)
             IN /\ r.ndim = 1
                /\ Len(Vec(r)) = Len(Vec(ns.x))
                /\ \A i \in 1..Len(Vec(ns.x)) :
                      Vec(r)[i] = NMul(NMul(NConst(2), Vec(ns.x)[i]), Vec(vv)[i])
    /\ (Has("J_L_x_explicit") /\ Printed(9)) =>
          \A i \in 1..Len(Vec(ns.x)) :
             Vec(ns.J_L_x_explicit)[i]
                = NMul(NMul(NConst(2), Vec(ns.x)[i]), Vec(out[9])[i])

\* cell 11 has applied vjp_f1_x_func for x = [2, -1] to a vector without zero
C7_Witness ==
    /\ Has("J_L_x_explicit") /\ Printed(9)
    /\ ns.x = IntArr(<<2, -1>>)
    /\ \A i \in 1..2 : Vec(out[9])[i] # NConst(0)
    /\ Vec(ns.J_L_x_explicit)[1] = NMul(NConst(4), Vec(out[9])[1])

\* C6: vjp_h_wrt_f1(x, v)[i] = exp(x[i]^2) * v[i] for every flat v given to
\* the vjp_h_f1_func of cell 8 and for the J_L_h cell 9 gives it; the JVP of
\* the same stage (make_jvp_reversemode(h_f1) at f1_value) is the same vector.
C6_VjpHF1 ==
    /\ Has("vjp_h_f1_func") =>
          \A vv \in TestVecs(Len(Vec(ns.x))) :
             LET r == CallVjp(ns.vjp_h_f1_func, vv)
             IN /\ Len(Vec(r)) = Len(Vec(ns.x))
                /\ \A i \in 1..Len(Vec(ns.x)) :
                      Vec(r)[i] = NMul(NExp(NMul(Vec(ns.x)[i], Vec(ns.x)[i])), Vec(vv)[i])
                /\ CallVjp(MakeJvp(Tape_h_f1(ns.f1_value), ns.h_value), vv) = r
    /\ Printed(9) =>
          \A i \in 1..Len(Vec(ns.x)) :
             Vec(out[9])[i]
                = NMul(NExp(NMul(Vec(ns.x)[i], Vec(ns.x)[i])), Vec(ns.J_L_h.tuple[1])[i])

\* cell 9 has printed dL/df1 = [2e^2 - 2e, 2e^8 - 2e^5] for x = [1, 2], y = [1, e]
C6_Witness ==
    /\ Printed(9)
    /\ ns.x = IntArr(<<1, 2>>)
    /\ ns.y = A1(<<NConst(1), NExp(NConst(1))>>)
    /\ Vec(out[9]) = << <<0, -2, 2>>, <<0, 0, 0, 0, 0, -2, 0, 0, 2>> >>

\* C1: the composed backpropagation J_L_x_explicit of cell 11 equals the
\* gradient J_L_x[0] of cell 3, both are 4 * (h[i] - y[i]) * h[i] * x[i] at
\* every index i, and the single VJP of h with respect to x of cell 6,
\* vjp_h_x_func(J_L_h), is the same vector.
C1_ChainRule ==
    /\ Has("J_L_x") =>
          \A i \in 1..Len(Vec(ns.x)) :
             Vec(ns.J_L_x.tuple[1])[i]
                = NMul(NMul(NMul(NConst(4), NSub(Vec(h(ns.x))[i], Vec(ns.y)[i])),
                            Vec(h(ns.x))[i]), Vec(ns.x)[i])
    /\ Has("J_L_x_explicit") => ns.J_L_x_explicit = ns.J_L_x.tuple[1]
    /\ Printed(6) => out[6] = ns.J_L_x.tuple[1]

\* cells 3, 6 and 11 have run for x = [1, 2], y = [1, e]: dL/dx = [4e^2 - 4e, 8e^8 - 8e^5]
C1_Witness ==
    /\ Has("J_L_x_explicit") /\ Printed(6)
    /\ ns.x = IntArr(<<1, 2>>)
    /\ ns.y = A1(<<NConst(1), NExp(NConst(1))>>)
    /\ ns.J_L_x_explicit = A1(<< <<0, -4, 4>>, <<0, 0, 0, 0, 0, -8, 0, 0, 8>> >>)

\* C2: hvp_L_wrt_h(v)[i] = 2 * v[i] for the vector v given to the
\* hvp_L_h_func of cell 14, whatever x and y cell 2 bound and whatever h the
\* builder is called at; for v = [1, 2] the result is [2, 4].
C2_Hvp ==
    Printed(14) =>
       /\ out[14].res.ndim = 1
       /\ Len(Vec(out[14].res)) = Len(Vec(out[14].arg))
       /\ \A i \in 1..Len(Vec(out[14].arg)) :
             Vec(out[14].res)[i] = NMul(NConst(2), Vec(out[14].arg)[i])
       /\ out[14].arg = IntArr(<<1, 2>>) => out[14].res = IntArr(<<2, 4>>)
       /\ \A hh \in TestVecs(Len(Vec(ns.y))) :
             CallVjp(MakeHvp(hh, ns.y), out[14].arg) = out[14].res

\* cell 14 has printed [2, 4] for v = [1, 2] with x = [1, 2], y = [1, e]
C2_Witness ==
    /\ Printed(14)
    /\ ns.x = IntArr(<<1, 2>>)
    /\ ns.y = A1(<<NConst(1), NExp(NConst(1))>>)
    /\ out[14].arg = IntArr(<<1, 2>>)
    /\ out[14].res = IntArr(<<2, 4>>)

\* The Jacobian of g at v, entry (i, j) the partial derivative of g(v)[i]
\* by v[j]: g is linear, so it is the difference g(v + e_j)[i] - g(v)[i].
UnitStep(v, j) ==
    A1(SubSeq([k \in 1..Width(v) |->
          NAdd(Vec(v)[k], NConst(IF k = j THEN 1 ELSE 0))], 1, Width(v)))
JacG(v) ==
    LET n == Width(v)
        gv == Vec(g(v))
        col == SubSeq([j \in 1..n |-> Vec(g(UnitStep(v, j)))], 1, n)
    IN SubSeq([i \in 1..n |-> SubSeq([j \in 1..n |->
          NSub(col[j][i], gv[i])], 1, n)], 1, n)
Asymmetric(J, n) == \E i, j \in 1..n : J[i][j] # J[j][i]

\* J * q and J^T * q for an n x n matrix J of numbers
MatVec(J, q, n) ==
    SubSeq([i \in 1..n |-> SumSeq(SubSeq([j \in 1..n |-> NMul(J[i][j], q[j])], 1, n))], 1, n)
MatTVec(J, q, n) ==
    SubSeq([j \in 1..n |-> SumSeq(SubSeq([i \in 1..n |-> NMul(J[i][j], q[i])], 1, n))], 1, n)

\* The matrices with 1-based indices: entry (i, j) on the anti-diagonal
\* i + j = n + 1 is i (0-based: i + 1) in JByRow, j (0-based: j + 1) in JByCol.
JByRow(n) ==
    SubSeq([i \in 1..n |-> SubSeq([j \in 1..n |->
        NConst(IF i + j = n + 1 THEN i ELSE 0)], 1, n)], 1, n)
JByCol(n) ==
    SubSeq([i \in 1..n |-> SubSeq([j \in 1..n |->
        NConst(IF i + j = n + 1 THEN j ELSE 0)], 1, n)], 1, n)

\* C4 as stated: the Jacobian of g has J[i][j] = j + 1 (0-based) when
\* i + j = N - 1 and 0 otherwise, vjp_g is J^T p and jvp_g is J p.
C4_Original ==
    Printed(13) =>
       /\ JacG(ns.v) = JByCol(Width(ns.v))
       /\ Vec(out[13].vjp) = MatTVec(JByCol(Width(ns.v)), Vec(ns.p), Width(ns.v))
       /\ Vec(out[13].jvp) = MatVec(JByCol(Width(ns.v)), Vec(ns.p), Width(ns.v))

\* C4 amended: the Jacobian of g has J[i][j] = i + 1 (0-based) when
\* i + j = N - 1 and 0 otherwise; vjp_g(v, p) is the transpose of this J
\* times p and jvp_g(v, p) is this J times p.
C4_Jacobian ==
    Printed(13) =>
       /\ JacG(ns.v) = JByRow(Width(ns.v))
       /\ Vec(out[13].vjp) = MatTVec(JByRow(Width(ns.v)), Vec(ns.p), Width(ns.v))
       /\ Vec(out[13].jvp) = MatVec(JByRow(Width(ns.v)), Vec(ns.p), Width(ns.v))
       /\ out[13].vjp.ndim = 1 /\ out[13].jvp.ndim = 1

\* cell 13 has run on vectors of length 3: vjp = [3 p3, 2 p2, p1], jvp = [p3, 2 p2, 3 p1]
C4_Witness ==
    /\ Printed(13)
    /\ ns.v = IntArr(<<1, 0, 2>>)
    /\ ns.p = IntArr(<<1, 2, 2>>)
    /\ out[13].vjp = IntArr(<<6, 4, 1>>)
    /\ out[13].jvp = IntArr(<<2, 4, 3>>)

\* C3 as stated: whenever the Jacobian of g is not symmetric, vjp_g(v, p)
\* and jvp_g(v, p) are different vectors, for every v and p.
C3_Original ==
    Printed(13) =>
       LET J == JacG(ns.v)
       IN Asymmetric(J, Width(ns.v)) => out[13].vjp # out[13].jvp

\* C3 amended: whenever the Jacobian of g is not symmetric, vjp_g(v, p) and
\* jvp_g(v, p) are different vectors exactly for the p that have a non-zero
\* entry at an index other than the middle one (0-based j with 2j = N - 1);
\* for the other p, p = 0 among them, the two are equal.
C3_VjpJvpDiffer ==
    Printed(13) =>
       LET J == JacG(ns.v)
       IN Asymmetric(J, Width(ns.v)) =>
             (out[13].vjp # out[13].jvp
                <=> \E j \in 1..Width(ns.p) :
                       Vec(ns.p)[j] # NConst(0) /\ 2 * j # Width(ns.p) + 1)

\* cell 13 has run with an asymmetric Jacobian and a non-zero p for which
\* the two products agree
C3_Witness ==
    /\ Printed(13)
    /\ Asymmetric(JacG(ns.v), Width(ns.v))
    /\ ns.p = IntArr(<<0, 2, 0>>)
    /\ out[13].vjp = IntArr(<<0, 4, 0>>)
    /\ out[13].jvp = IntArr(<<0, 4, 0>>)

\* C5: for v = [1, 2] and p = [1, 1] the Jacobian of g is [[0, 1], [2, 0]],
\* its rows being the VJPs of the unit vectors, vjp_g(v, p) = [2, 1] and
\* jvp_g(v, p) = [1, 2].
C5_Example ==
    (Printed(13) /\ ns.v = IntArr(<<1, 2>>) /\ ns.p = IntArr(<<1, 1>>)) =>
       /\ JacG(ns.v) = << <<NConst(0), NConst(1)>>, <<NConst(2), NConst(0)>> >>
       /\ CallVjp(ns.vjp_g_v_func, IntArr(<<1, 0>>)) = IntArr(<<0, 1>>)
       /\ CallVjp(ns.vjp_g_v_func, IntArr(<<0, 1>>)) = IntArr(<<2, 0>>)
       /\ out[13].vjp = IntArr(<<2, 1>>)
       /\ out[13].jvp = IntArr(<<1, 2>>)

\* cell 13 has run with the notebook's v = [1, 2] and p = [1, 1]
C5_Witness ==
    /\ Printed(13)
    /\ ns.v = IntArr(<<1, 2>>)
    /\ ns.p = IntArr(<<1, 1>>)
    /\ out[13].vjp = IntArr(<<2, 1>>)

\* two lengths that differ, neither of them 1
Mismatch(n, m) == n # m /\ n # 1 /\ m # 1

RECURSIVE SumSqB(_, _, _)
\* (hv[1] - yv[1])^2 + ... + (hv[n] - yv[n])^2, a sequence of one entry
\* standing for n equal entries
SumSqB(hv, yv, n) ==
    IF n = 0 THEN NConst(0)
    ELSE LET d == NSub(hv[IF Len(hv) = 1 THEN 1 ELSE n], yv[IF Len(yv) = 1 THEN 1 ELSE n])
         IN NAdd(SumSqB(hv, yv, n - 1), NMul(d, d))

\* C11 as stated: L_x(x, y) of cell 2, the two gradient calls of cell 3 and
\* the HVP builder of cell 14 raise whenever x and y have different lengths
\* and never when the lengths are equal.
C11_Original ==
    /\ Printed(2) => (Raised(out[2]) <=> Width(ns.x) # Width(ns.y))
    /\ Printed(3) => (Raised(out[3]) <=> Width(ns.x) # Width(ns.y))
    /\ Printed(14) => (Width(ns.x) # Width(ns.y) => Raised(out[14]))

\* C11 amended: L_x(x, y), grad(L_x)(x, y), grad(L)(h(x), y) and
\* make_hvp(L)(h(x), y) raise exactly when the lengths of x and y differ and
\* neither length is 1; a cell that raised has bound no result; when the
\* lengths are equal nothing raises, and when one length is 1 that array is
\* broadcast: the loss printed is the sum of squares over the longer length.
C11_LengthError ==
    /\ Printed(2) =>
          /\ Raised(out[2]) <=> Mismatch(Width(ns.x), Width(ns.y))
          /\ ~Raised(out[2]) =>
                out[2] = A0(SumSqB(Vec(h(ns.x)), Vec(ns.y), Max(Width(ns.x), Width(ns.y))))
    /\ Printed(3) =>
          /\ Raised(out[3]) <=> Mismatch(Width(ns.x), Width(ns.y))
          /\ Raised(out[3]) => ~Has("J_L_x") /\ ~Has("J_L_h")
          /\ ~Raised(out[3]) => Has("J_L_x") /\ Has("J_L_h")
    /\ Printed(14) =>
          /\ Has("hvp_L_h_func") <=> ~Mismatch(Width(ns.x), Width(ns.y))
          /\ Mismatch(Width(ns.x), Width(ns.y)) => Raised(out[14]) /\ ~Has("_")
          /\ Width(ns.x) = Width(ns.y) /\ Width(out[14].arg) = Width(ns.x)
                => ~Raised(out[14].res)

\* cells 2, 3 and 14 have all raised for an x of length 2 and a y of length 3
C11_Witness ==
    /\ Printed(2) /\ Printed(3) /\ Printed(14)
    /\ Width(ns.x) = 2 /\ Width(ns.y) = 3
    /\ Raised(out[2]) /\ Raised(out[3]) /\ Raised(out[14])
    /\ ~Has("J_L_x") /\ ~Has("hvp_L_h_func")

\* the flat array p brought to length n: repeated when it has one entry,
\* summed when n is 1
Fit(p, n) ==
    IF Width(p) = n THEN p
    ELSE IF Width(p) = 1 THEN A1(SubSeq([i \in 1..n |-> Vec(p)[1]], 1, n))
    ELSE A1(<< SumSeq(Vec(p)) >>)

C13_Idempotent ==
    [][(Printed(2) /\ 2 \in DOMAIN out'
          /\ out'[2].x = out[2].x /\ out'[2].y = out[2].y)
         => out'[2].printed = out[2].printed]_vars

\* the two passes of the dummy-variable construction with the dummy at o:
\* the VJP of g at v taken with o, then the VJP of that result by o taken with p
JvpByDummy(v, o, p) == Backward(TraceVjp(Tape_g(v), o), p)

\* C16: the JVP that cell 19 builds with tf.gradients twice and the dummy
\* tensor is the Jacobian of g times p; the first pass at the zero dummy gives
\* the zero vector; with any other dummy o the first pass gives J^T o and the
\* second pass the same J p; Autograd's make_jvp_reversemode gives it too.
C16_DummyJvp ==
    Printed(19) =>
       LET v == ns.v.val
           p == ns.p.val
           n == Width(v)
           J == JacG(v)
       IN /\ out[19].jvp = [list |-> << A1(MatVec(J, Vec(p), n)) >>]
          /\ out[19].vjp = [list |-> << A1(MatTVec(J, Vec(p), n)) >>]
          /\ ns.vjp_g_v_node.list[1].val = ZerosLike(v)
          /\ \A o \in TestVecs(n) \cup {ZerosLike(v)} :
                /\ Backward(Tape_g(v), o) = A1(MatTVec(J, Vec(o), n))
                /\ JvpByDummy(v, o, p) = out[19].jvp.list[1]
          /\ CallVjp(MakeJvp(Tape_g(v), g(v)), p) = out[19].jvp.list[1]

\* cell 19 has run on the notebook's v = [1, 2] and p = [1, 1]: VJP [2, 1], JVP [1, 2]
C16_Witness ==
    /\ Printed(19)
    /\ ns.v.val = IntArr(<<1, 2>>)
    /\ ns.p.val = IntArr(<<1, 1>>)
    /\ out[19].vjp = [list |-> << IntArr(<<2, 1>>) >>]
    /\ out[19].jvp = [list |-> << IntArr(<<1, 2>>) >>]

\* 2 * w for a flat array w
Twice(w) == A1(SubSeq([i \in 1..Width(w) |-> NMul(NConst(2), Vec(w)[i])], 1, Width(w)))

\* C17: the HVP taken as the VJP of the gradient, with tf.gradients twice
\* (cell 20) and with torch.autograd.grad twice (cell 23), is 2 * v for the
\* x, y and v of the cell, equals what Autograd's make_hvp(L) gives at the
\* same h and y, and is 2 * v at every other h as well.
C17_HvpByGradTwice ==
    /\ Printed(20) =>
          /\ out[20].res = [list |-> << Twice(out[20].arg) >>]
          /\ out[20].res.list[1] = CallVjp(MakeHvp(ns.h.val, ns.y.val), out[20].arg)
          /\ \A hh \in TestVecs(Width(ns.y.val)) :
                /\ Backward(Tape_tf_grad_L(hh, ns.y.val), out[20].arg) = Twice(out[20].arg)
                /\ CallVjp(MakeVjp(Tape_grad_L(hh, ns.y.val)), out[20].arg)
                      = Twice(out[20].arg)
    /\ Printed(23) =>
          /\ out[23].res = Twice(out[23].arg)
          /\ out[23].res = CallVjp(MakeHvp(ns.h.val, ns.y.val), out[23].arg)

\* cell 20 has printed [2, 4] for the vector [1, 2] at x = [1, 2], y = [1, e]
C17_Witness ==
    /\ Printed(20)
    /\ ns.x.val = IntArr(<<1, 2>>)
    /\ ns.y.val = A1(<<NConst(1), NExp(NConst(1))>>)
    /\ out[20].arg = IntArr(<<1, 2>>)
    /\ out[20].res = [list |-> << IntArr(<<2, 4>>) >>]

\* The Jacobian of the function recorded on a tape, by rows: row i is the
\* VJP of the tape with the i-th unit vector.
UnitVec(n, i) == A1(SubSeq([k \in 1..n |-> NConst(IF k = i THEN 1 ELSE 0)], 1, n))
JacByVjp(tape, n) ==
    SubSeq([i \in 1..n |-> Vec(Backward(tape, UnitVec(n, i)))], 1, n)
MatMul(A, B, n) ==
    SubSeq([i \in 1..n |-> SubSeq([j \in 1..n |->
        SumSeq(SubSeq([k \in 1..n |-> NMul(A[i][k], B[k][j])], 1, n))], 1, n)], 1, n)
\* exp(x[i]^2) * 2 * x[i]
DiagEntry(xi) == NMul(NMul(NExp(NMul(xi, xi)), NConst(2)), xi)

\* C18: the Jacobian of h by x is J_f2_f1 * J_f1_x, diagonal with entry
\* exp(x[i]^2) * 2 * x[i] at (i, i) and 0 elsewhere, and tf.gradients(h, x)
\* with its default all-ones vector (cell 17) is the vector of the diagonal
\* entries.
C18_DiagonalJacobian ==
    Printed(17) =>
       LET xv == ns.x.val
           n == Width(xv)
           J == JacByVjp(Tape_h(xv), n)
       IN /\ J = MatMul(JacByVjp(Tape_h_f1(f1(xv)), n), JacByVjp(Tape_f1(xv), n), n)
          /\ J = SubSeq([i \in 1..n |-> SubSeq([j \in 1..n |->
                    IF i = j THEN DiagEntry(Vec(xv)[i]) ELSE NConst(0)], 1, n)], 1, n)
          /\ out[17] = [list |-> << A1(SubSeq([i \in 1..n |-> J[i][i]], 1, n)) >>]
          /\ out[17] = [list |-> << A1(SubSeq([i \in 1..n |->
                                     DiagEntry(Vec(xv)[i])], 1, n)) >>]

\* cell 17 has printed [2e, 4e^4] at x = [1, 2]
C18_Witness ==
    /\ Printed(17)
    /\ ns.x.val = IntArr(<<1, 2>>)
    /\ out[17] = [list |-> << A1(<< NMul(NConst(2), NExp(NConst(1))),
                                     NMul(NConst(4), NExp(NConst(4))) >>) >>]

\* a flat array of n values
Flat(a, n) == a.ndim = 1 /\ Len(a.rows) = 1 /\ Width(a) = n

\* C19 as stated: every printed gradient or VJP result (cells 3, 6, 9, 11)
\* is a flat sequence of N values, N the length of x, also when the vector
\* handed to the VJP function is the J_L_h returned by grad(L, [0]).
C19_FlatResults ==
    /\ Printed(3) => Flat(out[3][1], Width(ns.x)) /\ Flat(out[3][2], Width(ns.x))
    /\ Printed(6) => Flat(out[6], Width(ns.x))
    /\ Printed(9) => Flat(out[9], Width(ns.x))
    /\ Printed(11) => Flat(out[11], Width(ns.x))

\* C20 as stated: no operation changes x, y or a quantity computed before:
\* a step other than cell 2 taking new literals leaves whatever x, y, f1, h
\* and L name as it was.
C20_NothingRebound ==
    [][(queue # <<>> /\ Head(queue) # 202) =>
          \A n \in {"x", "y", "f1", "h", "L"} \cap DOMAIN ns : ns'[n] = ns[n]]_vars

\* the dot product of two sequences of n numbers
Dot(a, b) == SumSeq(SubSeq([i \in 1..Len(a) |-> NMul(a[i], b[i])], 1, Len(a)))

\* the vectors q the adjoint identity is tried with: the unit vectors, which
\* span every q, and one vector with an entry that is no integer
AdjVecs(n) ==
    { UnitVec(n, i) : i \in 1..n }
      \cup { A1(SubSeq([i \in 1..n |-> IF i % 2 = 1 THEN NConst(-1) ELSE NExp(NConst(1))], 1, n)) }

\* C21: the adjoint identity for g: when cell 13 has run with a v and a p
\* of one length N, then for every vector q of length N tried,
\* vjp_g(v, p) . q = p . jvp_g(v, q), and likewise vjp_g(v, q) . p = q . jvp_g(v, p).
C21_Adjoint ==
    (Printed(13) /\ ~Raised(out[13]) /\ Width(ns.v) = Width(ns.p)) =>
       LET pv == Vec(ns.p)
       IN \A q \in AdjVecs(Width(ns.v)) :
            /\ Dot(Vec(out[13].vjp), Vec(q))
                  = Dot(pv, Vec(CallVjp(ns.jvp_g_v_func, q)))
            /\ Dot(Vec(CallVjp(ns.vjp_g_v_func, q)), pv)
                  = Dot(Vec(q), Vec(out[13].jvp))

\* cell 13 has run with v = [1, 2], p = [1, 1]: with q = [1, 2] both sides
\* of the identity are 4
C21_Witness ==
    /\ Printed(13) /\ ~Raised(out[13])
    /\ ns.v = IntArr(<<1, 2>>) /\ ns.p = IntArr(<<1, 1>>)
    /\ out[13].vjp = IntArr(<<2, 1>>)
    /\ Dot(Vec(out[13].vjp), Vec(IntArr(<<1, 2>>))) = NConst(4)
    /\ Dot(Vec(ns.p), Vec(CallVjp(ns.jvp_g_v_func, IntArr(<<1, 2>>)))) = NConst(4)

\* C22: g is linear, so the VJP and the JVP that cell 19 prints are the same
\* at every other v of the same length, with the two tf.gradients
\* constructions and with Autograd's make_vjp and make_jvp_reversemode
\* (cell 13) alike, and the JVP with p is g(p).
C22_Linear ==
    Printed(19) =>
       LET pp == ns.p.val
           vjp == out[19].vjp.list[1]
           jvp == out[19].jvp.list[1]
       IN /\ jvp = g(pp)
          /\ \A w \in TestVecs(Width(ns.v.val)) :
               LET tape == Tape_g(w)
               IN /\ TfGradients(Tensor(g(w), tape), Tensor(w, <<>>), pp) = out[19].vjp
                  /\ JvpByDummy(w, ZerosLike(w), pp) = jvp
                  /\ CallVjp(MakeVjp(tape), pp) = vjp
                  /\ CallVjp(MakeJvp(tape, g(w)), pp) = jvp

\* cell 19 has run with v = [2, 1], p = [1, 2]: the JVP is g(p) = [2, 2] and
\* the VJP [4, 1], as they are at v = [1, 1]
C22_Witness ==
    /\ Printed(19)
    /\ ns.v.val = IntArr(<<2, 1>>) /\ ns.p.val = IntArr(<<1, 2>>)
    /\ out[19].jvp = [list |-> << IntArr(<<2, 2>>) >>]
    /\ g(ns.p.val) = IntArr(<<2, 2>>)
    /\ out[19].vjp = [list |-> << IntArr(<<4, 1>>) >>]
    /\ CallVjp(MakeVjp(Tape_g(IntArr(<<1, 1>>))), ns.p.val) = IntArr(<<4, 1>>)

\* the cells of the earlier notebook that print, and whether a cell has run
PartPrints == {2, 303, 306, 309, 311, 14}
HasRun(k) == \A i \in 1..Len(queue) : queue[i] # k

\* C23 as stated: in a run of a notebook's cells top to bottom on a fresh
\* kernel no cell fails on an undefined name, and every cell that has run
\* has reached its print statement.
C23_EveryCellPrints ==
    /\ \A k \in DOMAIN out : ~Raised(out[k])
    /\ \A k \in PartPrints : HasRun(k) => k \in DOMAIN out /\ ~Raised(out[k])

====
